---- MODULE Spec2Model ----
(***************************************************************************)
(* A model of poverlap.py: the interval primitives (extend_bed,            *)
(* bed_sample, distance_shuffle, zclude) as operators that compute what    *)
(* the Python computes, and the two permutation tests (poverlap, fixle)    *)
(* as state machines whose rounds are run by a worker pool.                *)
(*                                                                         *)
(* A BED file is a sequence of records [chrom, start, end] (fixle's input  *)
(* has a fourth field, type).  Python 2 integer division is floor          *)
(* division, as is \div.                                                   *)
(***************************************************************************)
EXTENDS Integers, Sequences, FiniteSets, TLC

VARIABLES
    cmd,      \* the function under execution
    args,     \* its arguments, a record
    pc,       \* "call": not yet run, "rounds": pool is mapping, "done", "error"
    ret,      \* what the function returned / printed, or the exception raised
    stage,    \* poverlap / fixle: the staged files a, b, other and the observed count
    rnd,      \* poverlap / fixle: per submitted round, its status and its output
    order,    \* poverlap / fixle: the rounds in the order their commands completed
    sims      \* poverlap / fixle: the counts pool.imap has yielded so far

vars == <<cmd, args, pc, ret, stage, rnd, order, sims>>

\* ------------------------------------------------------------------ bounds
MaxCoord == 2      \* largest coordinate of an input interval
MaxRecs == 2       \* most records in an input BED file
MaxBases == 3      \* largest |bases| handed to extend_bed
MaxDist == 2       \* largest |dist| handed to distance_shuffle
MaxLines == 4      \* longest stream handed to bed_sample
MaxN == 3          \* largest sample size handed to bed_sample
MaxTrials == 2     \* most shuffles (n) of poverlap
MaxFixleTrials == 1 \* most shuffles (n) of fixle
MaxLabeled == 4    \* most records in fixle's input
NCPUS == 2         \* size of the worker pool

\* An optional argument is None or Some(x); The(o) is the x of Some(x).
None == <<>>
Some(x) == <<x>>
The(o) == o[1]
Chroms == {"chr1", "chr2"}

Max(x, y) == IF x >= y THEN x ELSE y
Min(x, y) == IF x <= y THEN x ELSE y
Abs(x) == IF x < 0 THEN -x ELSE x

\* What a call did: returned val, or raised the named exception.
Ok(v) == [raised |-> "", val |-> v]
Err(name) == [raised |-> name, val |-> <<>>]
IsErr(r) == r.raised # ""
NoRet == Ok(<<>>)

Intervals(cs) ==
    {r \in [chrom : cs, start : 0..MaxCoord, end : 0..MaxCoord] : r.start <= r.end}

SeqsUpTo(S, n) == UNION {[1..k -> S] : k \in 0..n}

RECURSIVE SumSeq(_)
SumSeq(s) == IF s = <<>> THEN 0 ELSE Head(s) + SumSeq(Tail(s))

\* ------------------------------------------------------------- extend_bed
\* One record of extend_bed's loop, with `bases` already halved.
ExtendRecNoCollapse(r, half) ==
    [r EXCEPT !.start = Max(0, r.start - half), !.end = Max(0, r.end + half)]

ExtendRec(r, half) ==
    LET s1 == Max(0, r.start - half)
        e1 == Max(0, r.end + half)
        mid == (s1 + e1) \div 2
    IN  IF s1 > e1
        THEN [r EXCEPT !.start = mid, !.end = mid]
        ELSE [r EXCEPT !.start = s1, !.end = e1]

extend_bed(fin, bases) ==
    LET half == bases \div 2
        out == [i \in 1..Len(fin) |-> ExtendRec(fin[i], half)]
    IN  IF \E i \in 1..Len(out) : out[i].start > out[i].end
        THEN Err("AssertionError")
        ELSE Ok(out)

\* -------------------------------------------------------------- bed_sample
\* One iteration of the loop: i is the 0-based index of `line`, r the value
\* randint(0, i) returns when it is called.
ReservoirStepOffByOne(lines, i, line, n, r) ==
    IF i <= n THEN Append(lines, line)
    ELSE IF r < n THEN [lines EXCEPT ![r + 1] = line]
    ELSE lines

ReservoirStep(lines, i, line, n, r) ==
    IF i < n THEN Append(lines, line)
    ELSE IF r < n THEN [lines EXCEPT ![r + 1] = line]
    ELSE lines

RECURSIVE Reservoir(_, _, _, _)
\* the buffer after the first m lines of `stream`
Reservoir(stream, n, draws, m) ==
    IF m = 0 THEN <<>>
    ELSE ReservoirStep(Reservoir(stream, n, draws, m - 1), m - 1, stream[m], n, draws[m])

bed_sample(stream, n, draws) == Reservoir(stream, n, draws, Len(stream))

\* the values randint(0, i) can return, for i = 0 .. len-1 (draws[i+1] \in 0..i)
Draws(len) == {d \in [1..len -> 0..(len - 1)] : \A m \in 1..len : d[m] <= m - 1}

\* the stream with each line tagged by its position, as enumerate() numbers it
Numbered(stream) == [m \in 1..Len(stream) |-> [pos |-> m - 1, line |-> stream[m]]]

\* -------------------------------------------------------- distance_shuffle
ShuffleRec(r, d) ==
    [r EXCEPT !.start = Max(0, r.start + d), !.end = Max(0, r.end + d)]

\* ds[i] is the value randint(-dist, dist) returns for the i-th record
distance_shuffle(bed, ds) == [i \in 1..Len(bed) |-> ShuffleRec(bed[i], ds[i])]

Offsets(len, dist) == [1..len -> (-Abs(dist))..Abs(dist)]

\* ------------------------------------------------ bedtools intersect, zclude
\* Two intervals overlap when they share a position of one chromosome
\* (half-open coordinates).
Overlaps(x, y) == x.chrom = y.chrom /\ x.start < y.end /\ y.start < x.end

OverlapsAny(x, bed) == \E j \in 1..Len(bed) : Overlaps(x, bed[j])

\* bedtools intersect -u -a A -b B: the A records overlapping some B record
IntersectU(A, B) == SelectSeq(A, LAMBDA x : OverlapsAny(x, B))
\* bedtools intersect -v -a A -b B: the A records overlapping no B record
IntersectV(A, B) == SelectSeq(A, LAMBDA x : ~OverlapsAny(x, B))

\* bedtools intersect -u -a A -b B | wc -l
overlapCount(A, B) == Len(IntersectU(A, B))

zclude(bed, other, exclude) ==
    IF other = None THEN Ok(bed)
    ELSE LET n_orig == Len(bed)
             tmp == IF exclude THEN IntersectV(bed, The(other))
                               ELSE IntersectU(bed, The(other))
         IN  IF n_orig = 0 THEN Err("ZeroDivisionError")   \* pct = ... / n_orig
             ELSE Ok(tmp)

\* ------------------------------------------------ the primitives, one call
Beds1 == SeqsUpTo(Intervals({"chr1"}), MaxRecs)
Beds2 == SeqsUpTo(Intervals(Chroms), MaxRecs)
Masks == {None} \cup {Some(m) : m \in SeqsUpTo(Intervals(Chroms), 1)}
Streams == SeqsUpTo({"x", "y"}, MaxLines)

NoStage == [a |-> <<>>, b |-> <<>>, other |-> <<>>, n_btypes |-> 0, observed |-> 0]

NoTest == /\ stage = NoStage
          /\ rnd = <<>>
          /\ order = <<>>
          /\ sims = <<>>

InitExtend ==
    /\ cmd = "extend_bed"
    /\ args \in [fin : Beds1, bases : (-MaxBases)..MaxBases]
    /\ pc = "call" /\ ret = NoRet /\ NoTest

ExtendBed ==
    /\ cmd = "extend_bed" /\ pc = "call"
    /\ ret' = extend_bed(args.fin, args.bases)
    /\ pc' = IF IsErr(ret') THEN "error" ELSE "done"
    /\ UNCHANGED <<cmd, args, stage, rnd, order, sims>>

SpecExtend == InitExtend /\ [][ExtendBed]_vars

InitSample ==
    /\ cmd = "bed_sample"
    /\ args \in [bed : Streams, n : (-1)..MaxN]
    /\ pc = "call" /\ ret = NoRet /\ NoTest

\* ret holds the chosen lines with their stream positions; the printed
\* sample is the `line` fields.
BedSample ==
    /\ cmd = "bed_sample" /\ pc = "call"
    /\ \E draws \in Draws(Len(args.bed)) :
          ret' = Ok(bed_sample(Numbered(args.bed), args.n, draws))
    /\ pc' = "done"
    /\ UNCHANGED <<cmd, args, stage, rnd, order, sims>>

SpecSample == InitSample /\ [][BedSample]_vars

InitShuffle ==
    /\ cmd = "distance_shuffle"
    /\ args \in [bed : Beds1, dist : (-MaxDist)..MaxDist]
    /\ pc = "call" /\ ret = NoRet /\ NoTest

DistanceShuffle ==
    /\ cmd = "distance_shuffle" /\ pc = "call"
    /\ \E ds \in Offsets(Len(args.bed), args.dist) :
          ret' = Ok(distance_shuffle(args.bed, ds))
    /\ pc' = "done"
    /\ UNCHANGED <<cmd, args, stage, rnd, order, sims>>

SpecShuffle == InitShuffle /\ [][DistanceShuffle]_vars

\* zclude called on one set and one mask in both modes; ret[exclude] is
\* None or Some(what the call with that mode did).
InitZclude ==
    /\ cmd = "zclude"
    /\ args \in [bed : Beds2, other : Masks]
    /\ pc = "call" /\ ret = [ex \in BOOLEAN |-> None] /\ NoTest

Zclude(exclude) ==
    /\ cmd = "zclude" /\ pc = "call" /\ ret[exclude] = None
    /\ ret' = [ret EXCEPT ![exclude] = Some(zclude(args.bed, args.other, exclude))]
    /\ pc' = IF ret'[~exclude] = None THEN "call" ELSE "done"
    /\ UNCHANGED <<cmd, args, stage, rnd, order, sims>>

ZcludeBoth == \E exclude \in BOOLEAN : Zclude(exclude)

SpecZclude == InitZclude /\ [][ZcludeBoth]_vars

\* ------------------------------------------------- the permutation tests
\* run(cmd) on a command `<upstream> | wc -l`.  `up` is what the upstream
\* part did: the lines it wrote and whether it failed.  The shell reports
\* the status of wc, the last command of the pipeline, and wc prints the
\* number of lines it read; run returns the first line of that output.
wc_l(up) == <<up.nlines>>
run(up) == wc_l(up)[1]

\* a collaborator that fails writes its message to stderr and no record
Failed == [failed |-> TRUE, nlines |-> 0, sample |-> <<>>]
Wrote(k, sample) == [failed |-> FALSE, nlines |-> k, sample |-> sample]

Queued == [st |-> "queued", count |-> 0, failed |-> FALSE, sample |-> <<>>]

\* Python truth of an optional integer
Truthy(o) == o # None /\ The(o) # 0

\* zclude(zclude(bed, exclude, True), include, False)
zclude2(bed, exclude, include) ==
    LET r1 == zclude(bed, exclude, TRUE)
    IN  IF IsErr(r1) THEN r1 ELSE zclude(r1.val, include, FALSE)

extend_if(bed, overlap_distance) ==
    IF overlap_distance # 0 THEN extend_bed(bed, overlap_distance) ELSE Ok(bed)

\* poverlap up to the observed count: the staged a and b, or the exception
poverlap_stage(ar) ==
    IF ar.genome = None /\ ~Truthy(ar.shuffle_distance) THEN Err("AssertionError")
    ELSE LET za == zclude2(ar.a, ar.exclude, ar.include) IN
         IF IsErr(za) THEN za
    ELSE LET zb == zclude2(ar.b, ar.exclude, ar.include) IN
         IF IsErr(zb) THEN zb
    ELSE LET ea == extend_if(za.val, ar.overlap_distance) IN
         IF IsErr(ea) THEN ea
    ELSE LET eb == extend_if(zb.val, ar.overlap_distance) IN
         IF IsErr(eb) THEN eb
    ELSE Ok([a |-> ea.val, b |-> eb.val, other |-> <<>>, n_btypes |-> 0,
             observed |-> overlapCount(ea.val, eb.val)])

\* What the upstream part of poverlap's shuf_cmd can write.  bedtools
\* shuffle is opaque: intersect -u then reports any number of the a records,
\* none when b is empty.
poverlap_round(ar, st) ==
    IF ar.shuffle_distance = None
    THEN {Wrote(c, <<>>) : c \in 0..(IF Len(st.b) = 0 THEN 0 ELSE Len(st.a))}
    ELSE LET dist == The(ar.shuffle_distance)
         IN  {Wrote(overlapCount(IF ar.shuffle_both THEN distance_shuffle(st.a, da) ELSE st.a,
                                 distance_shuffle(st.b, db)), <<>>) :
                  da \in Offsets(Len(st.a), dist), db \in Offsets(Len(st.b), dist)}

\* fixle up to the observed count
fixle_stage(ar) ==
    LET a == SelectSeq(ar.bed, LAMBDA r : r.type = ar.atype)
        other == SelectSeq(ar.bed, LAMBDA r : r.type # ar.atype)
        b == SelectSeq(other, LAMBDA r : r.type = ar.btype)
        n_btypes == Len(b)
    IN  IF ~(n_btypes > 0) THEN Err("AssertionError")
        ELSE Ok([a |-> a, b |-> b, other |-> other, n_btypes |-> n_btypes,
                 observed |-> overlapCount(a, b)])

\* (--n {n} in place of --n {n_btypes})
fixle_roundShuffles(ar, st) ==
    {LET picked == bed_sample(Numbered(st.other), ar.n, draws)
         bsample == [j \in 1..Len(picked) |-> picked[j].line]
     IN  Wrote(overlapCount(st.a, bsample), [j \in 1..Len(picked) |-> picked[j].pos]) :
        draws \in Draws(Len(st.other))}

\* What the upstream part of fixle's shuf_cmd can write: a intersected with
\* bed-sample of `other`.  The sample is kept as positions in `other`.
fixle_round(ar, st) ==
    {LET picked == bed_sample(Numbered(st.other), st.n_btypes, draws)
         bsample == [j \in 1..Len(picked) |-> picked[j].line]
     IN  Wrote(overlapCount(st.a, bsample), [j \in 1..Len(picked) |-> picked[j].pos]) :
        draws \in Draws(Len(st.other))}

RoundOutputs ==
    IF cmd = "poverlap" THEN poverlap_round(args, stage) ELSE fixle_round(args, stage)

\* sum((s >= observed) for s in sims)
HitsStrict(ss, observed) == Cardinality({i \in 1..Len(ss) : ss[i] > observed})

Hits(ss, observed) == Cardinality({i \in 1..Len(ss) : ss[i] >= observed})

\* [shuf_cmd] * n
Tasks(n) == [i \in 1..Max(n, 0) |-> Queued]

Running == {i \in 1..Len(rnd) : rnd[i].st = "running"}

PovBeds == {<<>>,
            <<[chrom |-> "chr1", start |-> 0, end |-> 2]>>,
            <<[chrom |-> "chr1", start |-> 1, end |-> 2],
              [chrom |-> "chr1", start |-> 3, end |-> 4]>>}
PovExclude == {None, Some(<<[chrom |-> "chr1", start |-> 0, end |-> 1]>>)}
PovInclude == {None, Some(<<[chrom |-> "chr1", start |-> 1, end |-> 3]>>)}

InitPoverlap ==
    /\ cmd = "poverlap"
    /\ args \in [a : PovBeds, b : PovBeds,
                 genome : {None, Some("hg19")},
                 n : 0..MaxTrials,
                 chrom : BOOLEAN,
                 exclude : PovExclude, include : PovInclude,
                 shuffle_both : BOOLEAN,
                 overlap_distance : {0, 2},
                 shuffle_distance : {None} \cup {Some(d) : d \in 0..(MaxDist - 1)}]
    /\ pc = "call" /\ ret = NoRet /\ NoTest

PoverlapSetup ==
    /\ cmd = "poverlap" /\ pc = "call"
    /\ LET s == poverlap_stage(args)
       IN  IF IsErr(s)
           THEN /\ pc' = "error" /\ ret' = s
                /\ UNCHANGED <<stage, rnd>>
           ELSE /\ pc' = "rounds" /\ stage' = s.val
                /\ rnd' = Tasks(args.n)
                /\ UNCHANGED ret
    /\ UNCHANGED <<cmd, args, order, sims>>

\* the labelled input of fixle: record i lies at [i-1, i+1)
Types == {"Pol2", "CTCF", "other"}
LabeledBeds ==
    {[i \in 1..Len(t) |-> [chrom |-> "chr1", start |-> i - 1, end |-> i + 1, type |-> t[i]]] :
        t \in SeqsUpTo(Types, MaxLabeled)}

InitFixle ==
    /\ cmd = "fixle"
    /\ args \in [bed : LabeledBeds, atype : {"Pol2", "CTCF"}, btype : {"Pol2", "CTCF"},
                 n : 0..MaxFixleTrials]
    /\ pc = "call" /\ ret = NoRet /\ NoTest

FixleSetup ==
    /\ cmd = "fixle" /\ pc = "call"
    /\ LET s == fixle_stage(args)
       IN  IF IsErr(s)
           THEN /\ pc' = "error" /\ ret' = s
                /\ UNCHANGED <<stage, rnd>>
           ELSE /\ pc' = "rounds" /\ stage' = s.val
                /\ rnd' = Tasks(args.n)
                /\ UNCHANGED ret
    /\ UNCHANGED <<cmd, args, order, sims>>

\* a free worker takes the next task of the list
StartRound(i) ==
    /\ pc = "rounds" /\ rnd[i].st = "queued"
    /\ \A j \in 1..(i - 1) : rnd[j].st # "queued"
    /\ Cardinality(Running) < NCPUS
    /\ rnd' = [rnd EXCEPT ![i].st = "running"]
    /\ UNCHANGED <<cmd, args, pc, ret, stage, order, sims>>

\* the worker's run(shuf_cmd) returns
FinishRound(i) ==
    /\ pc = "rounds" /\ rnd[i].st = "running"
    /\ \E up \in RoundOutputs \cup {Failed} :
          rnd' = [rnd EXCEPT ![i] = [st |-> "done", count |-> run(up),
                                     failed |-> up.failed, sample |-> up.sample]]
    /\ order' = Append(order, i)
    /\ UNCHANGED <<cmd, args, pc, ret, stage, sims>>

\* imap yields the results in task order, each when its round is done
Collect ==
    /\ pc = "rounds" /\ Len(sims) < Len(rnd)
    /\ rnd[Len(sims) + 1].st = "done"
    /\ sims' = Append(sims, rnd[Len(sims) + 1].count)
    /\ UNCHANGED <<cmd, args, pc, ret, stage, rnd, order>>

\* the mean and the p-value, as the numerators over trials = len(sims)
ReportEarly ==
    /\ pc = "rounds" /\ Len(sims) >= Min(1, Len(rnd))
    /\ IF Len(sims) = 0
       THEN /\ pc' = "error" /\ ret' = Err("ZeroDivisionError")
       ELSE /\ pc' = "done"
            /\ ret' = Ok([sims |-> sims, total |-> SumSeq(sims),
                          hits |-> Hits(sims, stage.observed), trials |-> Len(sims)])
    /\ UNCHANGED <<cmd, args, stage, rnd, order, sims>>

Report ==
    /\ pc = "rounds" /\ Len(sims) = Len(rnd)
    /\ IF Len(sims) = 0
       THEN /\ pc' = "error" /\ ret' = Err("ZeroDivisionError")
       ELSE /\ pc' = "done"
            /\ ret' = Ok([sims |-> sims, total |-> SumSeq(sims),
                          hits |-> Hits(sims, stage.observed), trials |-> Len(sims)])
    /\ UNCHANGED <<cmd, args, stage, rnd, order, sims>>

Start == \E i \in 1..Len(rnd) : StartRound(i)
Finish == \E i \in 1..Len(rnd) : FinishRound(i)

NextPoverlap == PoverlapSetup \/ Start \/ Finish \/ Collect \/ Report
SpecPoverlap == InitPoverlap /\ [][NextPoverlap]_vars

NextFixle == FixleSetup \/ Start \/ Finish \/ Collect \/ Report
SpecFixle == InitFixle /\ [][NextFixle]_vars

\* ------------------------------------------------------------------ claims
RECURSIVE IsSubseq(_, _)
IsSubseq(s, t) ==
    IF s = <<>> THEN TRUE
    ELSE IF t = <<>> THEN FALSE
    ELSE IF Head(s) = Head(t) THEN IsSubseq(Tail(s), Tail(t))
    ELSE IsSubseq(s, Tail(t))

Count(x, s) == Cardinality({i \in 1..Len(s) : s[i] = x})

\* C1: distance_shuffle keeps every record's width end - start and keeps
\* start >= 0, for every offset it can draw (also when start + d < 0).
C1_WidthPreserved ==
    (cmd = "distance_shuffle" /\ pc = "done") =>
        \A i \in 1..Len(args.bed) :
            /\ ret.val[i].end - ret.val[i].start = args.bed[i].end - args.bed[i].start
            /\ ret.val[i].start >= 0

\* C3: with n >= 1, bed_sample returns exactly min(n, stream length) records
\* and no stream position twice.
C3_SampleSize ==
    (cmd = "bed_sample" /\ pc = "done" /\ args.n >= 1) =>
        /\ Len(ret.val) = Min(args.n, Len(args.bed))
        /\ \A j, k \in 1..Len(ret.val) : ret.val[j].pos = ret.val[k].pos => j = k
        /\ \A j \in 1..Len(ret.val) :
              /\ ret.val[j].pos \in 0..(Len(args.bed) - 1)
              /\ ret.val[j].line = args.bed[ret.val[j].pos + 1]

\* a sample in which a later line has replaced one of the first n
C3_Witness ==
    /\ cmd = "bed_sample" /\ pc = "done"
    /\ args.n >= 1 /\ Len(args.bed) > args.n
    /\ \E j \in 1..Len(ret.val) : ret.val[j].pos >= args.n

\* C4: extend_bed never writes a record with start < 0 or start > end, for
\* any integer bases; where the clamped start would pass the clamped end,
\* both become their midpoint.
C4_ExtendOrdered ==
    (cmd = "extend_bed" /\ pc # "call") =>
        /\ pc = "done"
        /\ Len(ret.val) = Len(args.fin)
        /\ \A i \in 1..Len(ret.val) :
              LET half == args.bases \div 2
                  s1 == Max(0, args.fin[i].start - half)
                  e1 == Max(0, args.fin[i].end + half)
              IN  /\ ret.val[i].start >= 0
                  /\ ret.val[i].start <= ret.val[i].end
                  /\ s1 > e1 => /\ ret.val[i].start = ret.val[i].end
                                /\ ret.val[i].start = (s1 + e1) \div 2

\* a record whose extension inverted it and that came out zero-width
C4_Witness ==
    /\ cmd = "extend_bed" /\ pc = "done"
    /\ \E i \in 1..Len(ret.val) :
          /\ args.fin[i].start - (args.bases \div 2) > args.fin[i].end + (args.bases \div 2)
          /\ args.fin[i].start < args.fin[i].end
          /\ ret.val[i].start = ret.val[i].end

\* C7: for every set and every mask, zclude in Exclude mode and in Include
\* mode return disjoint subsequences of the set whose sizes sum to the size
\* of the set, every record in exactly one of them.
C7_Partition ==
    (cmd = "zclude" /\ args.other # None /\ pc = "done") =>
        LET excl == The(ret[TRUE])
            incl == The(ret[FALSE])
        IN  /\ ~IsErr(excl) /\ ~IsErr(incl)
            /\ IsSubseq(excl.val, args.bed) /\ IsSubseq(incl.val, args.bed)
            /\ Len(excl.val) + Len(incl.val) = Len(args.bed)
            /\ \A i \in 1..Len(args.bed) :
                  /\ Count(args.bed[i], excl.val) + Count(args.bed[i], incl.val)
                        = Count(args.bed[i], args.bed)
                  /\ Count(args.bed[i], excl.val) = 0 \/ Count(args.bed[i], incl.val) = 0

\* C8: bed_sample with n <= 0 fails; it returns no sample.
C8_NonPositiveFails ==
    (cmd = "bed_sample" /\ args.n <= 0 /\ pc # "call") => pc = "error"

\* C2 as stated: with trials >= 1 and observed > 0 the simulated list has
\* length trials and the p-value hits/trials lies in [1/trials, 1] (looked
\* at where every round's command succeeded).
C2_PValueAtLeastOneOverTrials ==
    (pc = "done" /\ args.n >= 1 /\ stage.observed > 0
        /\ \A i \in 1..Len(rnd) : ~rnd[i].failed) =>
        /\ Len(ret.val.sims) = args.n
        /\ ret.val.trials = args.n
        /\ ret.val.hits >= 1
        /\ ret.val.hits <= ret.val.trials

\* C2 as amended: a test that reports has trials >= 1, a simulated list of
\* length exactly trials holding the rounds' counts in task order, and a
\* p-value hits/trials in [0, 1]; it reaches 1/trials exactly when some
\* simulated count is >= observed.
C2_PValueRange ==
    pc = "done" =>
        /\ args.n >= 1
        /\ Len(ret.val.sims) = args.n
        /\ \A i \in 1..args.n : ret.val.sims[i] = rnd[i].count
        /\ ret.val.trials = args.n
        /\ ret.val.hits >= 0
        /\ ret.val.hits <= ret.val.trials
        /\ ret.val.hits >= 1 <=> \E i \in 1..args.n : ret.val.sims[i] >= stage.observed

\* a reported p-value of 0 with a positive observed count
C2_Witness ==
    /\ pc = "done" /\ args.n >= 1 /\ stage.observed > 0
    /\ ret.val.hits = 0
    /\ \A i \in 1..Len(rnd) : ~rnd[i].failed

BtypesInPool ==
    Cardinality({i \in 1..Len(args.bed) :
                    args.bed[i].type = args.btype /\ args.bed[i].type # args.atype})

\* C5: fixle keeps exactly the atype records fixed and puts all others in
\* the pool; it raises, with no round run, when the pool holds no btype
\* record; otherwise every round that ran samples exactly that many records
\* of the pool, none twice.
C5_FixlePool ==
    (cmd = "fixle" /\ pc # "call") =>
        IF BtypesInPool = 0
        THEN /\ pc = "error" /\ ret.raised = "AssertionError"
             /\ rnd = <<>> /\ sims = <<>>
        ELSE /\ ret.raised # "AssertionError"
             /\ IsSubseq(stage.a, args.bed) /\ IsSubseq(stage.other, args.bed)
             /\ Len(stage.a) + Len(stage.other) = Len(args.bed)
             /\ \A i \in 1..Len(stage.a) : stage.a[i].type = args.atype
             /\ \A i \in 1..Len(stage.other) : stage.other[i].type # args.atype
             /\ stage.n_btypes = BtypesInPool
             /\ \A i \in 1..Len(rnd) :
                   (rnd[i].st = "done" /\ ~rnd[i].failed) =>
                       /\ Len(rnd[i].sample) = BtypesInPool
                       /\ \A j, k \in 1..Len(rnd[i].sample) :
                             rnd[i].sample[j] = rnd[i].sample[k] => j = k
                       /\ \A j \in 1..Len(rnd[i].sample) :
                             rnd[i].sample[j] \in 0..(Len(stage.other) - 1)

\* a round that drew a record of another label from a pool larger than the sample
C5_Witness ==
    /\ cmd = "fixle" /\ pc = "done"
    /\ Len(stage.a) > 0 /\ stage.n_btypes >= 2 /\ Len(stage.other) > stage.n_btypes
    /\ \E i \in 1..Len(rnd) :
          /\ ~rnd[i].failed
          /\ \E j \in 1..Len(rnd[i].sample) :
                stage.other[rnd[i].sample[j] + 1].type # args.btype

\* C6: when a round's command fails, the test fails: no result is reported
\* with a failed round among its rounds.
C6_FailedRoundFailsTest ==
    pc = "done" => \A i \in 1..Len(rnd) : ~rnd[i].failed

\* C9: with shuffle_distance set, the observed count and the rounds' counts
\* are those of the run with exclude=None, include=None and chrom=False.
C9_MasksIgnoredWithDistance ==
    (cmd = "poverlap" /\ args.shuffle_distance # None /\ pc \in {"rounds", "done"}) =>
        LET ref == [args EXCEPT !.exclude = None, !.include = None, !.chrom = FALSE]
            rs == poverlap_stage(ref)
        IN  /\ ~IsErr(rs)
            /\ stage.observed = rs.val.observed
            /\ \A i \in 1..Len(rnd) :
                  (rnd[i].st = "done" /\ ~rnd[i].failed) =>
                      Wrote(rnd[i].count, <<>>) \in poverlap_round(ref, rs.val)

\* C10: the report waits for every round, and its mean and p-value are
\* those of the rounds' counts taken in the order the rounds completed,
\* whatever that order; observed is the count of the staged a and b.
C10_OrderInsensitive ==
    /\ \A i \in 1..Len(sims) : rnd[i].st = "done" /\ sims[i] = rnd[i].count
    /\ (cmd = "poverlap" /\ pc = "done") =>
        LET done == [k \in 1..Len(order) |-> rnd[order[k]].count]
        IN  /\ Len(rnd) = args.n
            /\ \A i \in 1..Len(rnd) : rnd[i].st = "done"
            /\ Len(order) = args.n
            /\ \A i \in 1..args.n : \E k \in 1..Len(order) : order[k] = i
            /\ ret.val.trials = Len(order)
            /\ ret.val.total = SumSeq(done)
            /\ ret.val.hits = Cardinality({k \in 1..Len(done) : done[k] >= stage.observed})
            /\ stage.observed = overlapCount(stage.a, stage.b)

\* a report whose rounds completed out of task order with different counts
C10_Witness ==
    /\ cmd = "poverlap" /\ pc = "done"
    /\ Len(order) >= 2 /\ order[1] = 2
    /\ rnd[1].count # rnd[2].count

====
